---- MODULE Spec2Model ----
(***************************************************************************)
(* A model of the two modules of the repository:                           *)
(*   src/src/data_downloader.py     fetch_ohlcv_data, the paginated fetch   *)
(*   src/src/feature_engineering.py the target / feature pipeline           *)
(*                                                                         *)
(* Spec        the fetch loop of fetch_ohlcv_data against a paged source    *)
(* LiveSpec    the same loop with the fairness the retry loop relies on     *)
(* FeatureSpec the calls a caller can make on a DataFrame with the          *)
(*             functions of feature_engineering.py                          *)
(***************************************************************************)
EXTENDS Integers, Sequences, FiniteSets, TLC

VARIABLES
    \* ---- fetch_ohlcv_data ----
    pc,               \* position in fetch_ohlcv_data
    start_date,       \* the start_date argument: a day number, or INVALID_DATE
    start_timestamp,  \* the cursor (ms)
    all_data,         \* the accumulated candles (their timestamps, ms)
    result,           \* the index of the returned DataFrame (ns), <<>> if empty
    now,              \* exchange.milliseconds()
    srcFirst,         \* the source: timestamp of its first candle
    srcCount,         \* the source: number of candles it holds (gap-free)
    lastReq,          \* history: since= of the latest fetch_ohlcv call
    lastOutcome,      \* history: how the latest fetch_ohlcv call ended
    sawNetwork,       \* history: some call raised NetworkError
    \* ---- feature_engineering ----
    raw,              \* history: the caller's DataFrame as first passed in
    df,               \* the caller's DataFrame object (mutated in place)
    horizon,          \* the window argument of create_target_variable
    done,             \* the functions already called on df
    final_df,         \* the DataFrame create_all_features returned, or NoFrame
    cleaned,          \* final_df.dropna(), or NoFrame
    err,              \* the exception that ended the calls, "none" if none
    errStep           \* the function that raised it

fetchVars == <<pc, start_date, start_timestamp, all_data, result, now,
               srcFirst, srcCount, lastReq, lastOutcome, sawNetwork>>
featVars  == <<raw, df, horizon, done, final_df, cleaned, err, errStep>>
vars      == <<pc, start_date, start_timestamp, all_data, result, now,
               srcFirst, srcCount, lastReq, lastOutcome, sawNetwork,
               raw, df, horizon, done, final_df, cleaned, err, errStep>>

(***************************************************************************)
(* Bounds and scaled units.  Times are integers; one model millisecond is   *)
(* the unit of the cursor.                                                  *)
(***************************************************************************)
\* candle interval in ms (timeframe); > 1 so that "last + 1" is not a candle
Interval == 3
\* ms per calendar day of start_date, scaled down
MsPerDay == 2
\* start_date ranges over the days 0..MaxStartDay
MaxStartDay == 2
\* the clock exchange.milliseconds() stops advancing here
MaxNow == 9
\* the source's first candle is at 0..MaxSrcFirst
MaxSrcFirst == 2
\* the source holds 0..MaxCandles candles
MaxCandles == 4
\* the source's page limit: a page holds 0..MaxPage candles
MaxPage == 2
\* pandas stores datetime64[ns]: nanoseconds per millisecond
NsPerMs == 1000000

INVALID_DATE == -1

Min(a, b) == IF a <= b THEN a ELSE b

(***************************************************************************)
(* The remote source (ccxt.binance): a gap-free set of candles, one every   *)
(* Interval ms from srcFirst; a candle exists once its open time is reached.*)
(***************************************************************************)
SourceCandles(t) ==
    { srcFirst + k * Interval : k \in 0 .. srcCount - 1 } \cap (0 .. t)

\* The candles a request with since=cursor can return, at clock t.
Available(cursor, t) == { c \in SourceCandles(t) : c >= cursor }

RECURSIVE Ascending(_)
Ascending(S) ==
    IF S = {} THEN <<>>
    ELSE LET m == CHOOSE x \in S : \A y \in S : x <= y
         IN  <<m>> \o Ascending(S \ {m})

\* exchange.fetch_ohlcv(symbol, timeframe, since=cursor) answering n candles:
\* the first n candles at or after the cursor, ascending.
FetchOhlcv(cursor, t, n) ==
    LET run == Ascending(Available(cursor, t))
    IN  SubSeq(run, 1, Min(n, Len(run)))

\* datetime.strptime(start_date, '%Y-%m-%d').timestamp() * 1000
StartTimestamp(d) == d * MsPerDay

\* pd.to_datetime(df['timestamp'], unit='ms'): datetime64[ns]
ToDatetime(ms) == ms * NsPerMs

NextCursorNoAdvance(last_timestamp) == last_timestamp

\* start_timestamp = last_timestamp + 1
NextCursor(last_timestamp) == last_timestamp + 1

\* time passing during exchange.sleep(...), until the clock bound
Elapse(t) == { u \in {t, t + 1} : u <= MaxNow }

NoFrame == [cols |-> <<>>, index |-> <<>>, kind |-> "none"]

FeatIdle ==
    /\ raw = NoFrame /\ df = NoFrame /\ horizon = 0 /\ done = {}
    /\ final_df = NoFrame /\ cleaned = NoFrame /\ err = "none" /\ errStep = "none"

InitFetch ==
    /\ pc = "parse"
    /\ start_date \in {INVALID_DATE} \cup (0 .. MaxStartDay)
    /\ start_timestamp = 0
    /\ all_data = <<>>
    /\ result = <<>>
    /\ now \in 0 .. MaxNow
    /\ srcFirst \in 0 .. MaxSrcFirst
    /\ srcCount \in 0 .. MaxCandles
    /\ lastReq = -1
    /\ lastOutcome = "none"
    /\ sawNetwork = FALSE

Init == InitFetch /\ FeatIdle

\* lines 45-51: parse start_date; ValueError returns an empty DataFrame
ParseStartDate ==
    /\ pc = "parse"
    /\ IF start_date = INVALID_DATE
       THEN /\ pc' = "done"
            /\ result' = <<>>
            /\ UNCHANGED start_timestamp
       ELSE /\ pc' = "loop"
            /\ start_timestamp' = StartTimestamp(start_date)
            /\ UNCHANGED result
    /\ UNCHANGED <<start_date, all_data, now, srcFirst, srcCount,
                   lastReq, lastOutcome, sawNetwork>>
    /\ UNCHANGED featVars

\* line 56: while start_timestamp < exchange.milliseconds()
LoopCheck ==
    /\ pc = "loop"
    /\ pc' = IF start_timestamp < now THEN "fetch" ELSE "assemble"
    /\ UNCHANGED <<start_date, start_timestamp, all_data, result, now,
                   srcFirst, srcCount, lastReq, lastOutcome, sawNetwork>>
    /\ UNCHANGED featVars

\* lines 59-77: a non-empty page: extend, advance the cursor, rate-limit sleep
FetchPage ==
    /\ pc = "fetch"
    /\ \E n \in 1 .. MaxPage :
         LET ohlcv == FetchOhlcv(start_timestamp, now, n)
         IN  /\ ohlcv # <<>>
             /\ all_data' = all_data \o ohlcv
             /\ start_timestamp' = NextCursor(ohlcv[Len(ohlcv)])
    /\ now' \in Elapse(now)
    /\ pc' = "loop"
    /\ lastReq' = start_timestamp
    /\ lastOutcome' = "page"
    /\ UNCHANGED <<start_date, result, srcFirst, srcCount, sawNetwork>>
    /\ UNCHANGED featVars

FetchEmptyContinue ==
    /\ pc = "fetch"
    /\ pc' = "loop"
    /\ lastReq' = start_timestamp
    /\ lastOutcome' = "empty"
    /\ UNCHANGED <<start_date, start_timestamp, all_data, result, now,
                   srcFirst, srcCount, sawNetwork>>
    /\ UNCHANGED featVars

\* lines 59-63: an empty page ends the loop
FetchEmpty ==
    /\ pc = "fetch"
    /\ pc' = "assemble"
    /\ lastReq' = start_timestamp
    /\ lastOutcome' = "empty"
    /\ UNCHANGED <<start_date, start_timestamp, all_data, result, now,
                   srcFirst, srcCount, sawNetwork>>
    /\ UNCHANGED featVars

OnNetworkErrorSkipPage ==
    /\ pc = "fetch"
    /\ now' \in Elapse(now)
    /\ pc' = "loop"
    /\ start_timestamp' = start_timestamp + Interval
    /\ lastReq' = start_timestamp
    /\ lastOutcome' = "network"
    /\ sawNetwork' = TRUE
    /\ UNCHANGED <<start_date, all_data, result, srcFirst, srcCount>>
    /\ UNCHANGED featVars

\* lines 79-81: NetworkError: report, sleep 5 s, go round the loop again
OnNetworkError ==
    /\ pc = "fetch"
    /\ now' \in Elapse(now)
    /\ pc' = "loop"
    /\ lastReq' = start_timestamp
    /\ lastOutcome' = "network"
    /\ sawNetwork' = TRUE
    /\ UNCHANGED <<start_date, start_timestamp, all_data, result,
                   srcFirst, srcCount>>
    /\ UNCHANGED featVars

OnExchangeErrorBreak ==
    /\ pc = "fetch"
    /\ pc' = "assemble"
    /\ lastReq' = start_timestamp
    /\ lastOutcome' = "exchange"
    /\ UNCHANGED <<start_date, start_timestamp, all_data, result, now,
                   srcFirst, srcCount, sawNetwork>>
    /\ UNCHANGED featVars

\* lines 82-84: ExchangeError: return pd.DataFrame()
OnExchangeError ==
    /\ pc = "fetch"
    /\ pc' = "done"
    /\ result' = <<>>
    /\ lastReq' = start_timestamp
    /\ lastOutcome' = "exchange"
    /\ UNCHANGED <<start_date, start_timestamp, all_data, now,
                   srcFirst, srcCount, sawNetwork>>
    /\ UNCHANGED featVars

\* lines 86-103: empty DataFrame if nothing was downloaded, else the frame
\* indexed by the converted timestamps, in the order received
Assemble ==
    /\ pc = "assemble"
    /\ pc' = "done"
    /\ result' = IF all_data = <<>> THEN <<>>
                 ELSE [k \in 1 .. Len(all_data) |-> ToDatetime(all_data[k])]
    /\ UNCHANGED <<start_date, start_timestamp, all_data, now,
                   srcFirst, srcCount, lastReq, lastOutcome, sawNetwork>>
    /\ UNCHANGED featVars

(***************************************************************************)
(* feature_engineering.py                                                   *)
(*                                                                         *)
(* A float is a pair <<n, d>>: the fraction n/d in lowest terms with d > 0, *)
(* NaN is <<0, 0>> and +inf/-inf are <<1, 0>>/<<-1, 0>>.  Rounding is not   *)
(* modelled.  A value that is a square root in the code (a standard         *)
(* deviation, ANNUALIZATION_FACTOR, and their products and quotients: the   *)
(* columns vol_realizada_*, vol_ratio_24_168, target_volatility) is carried *)
(* as its square; squaring is injective on the non-negative floats, so      *)
(* equality, zero and NaN are those of the code's values.  np.log is taken  *)
(* on quotients of powers of two and is in units of ln 2.                   *)
(***************************************************************************)
\* window sizes; the code's 24, 168 and 720 hours, scaled down
SHORT_TERM_WINDOW == 2
MID_TERM_WINDOW == 3
LONG_TERM_WINDOW == 4
\* create_target_variable is called with window in SHORT_TERM_WINDOW..MaxHorizon
MaxHorizon == 3
\* the caller's series has 0..MaxRows rows
MaxRows == 7

\* ANNUALIZATION_FACTOR = np.sqrt(365 * 24), as its square
ANNUALIZATION_FACTOR == <<365 * 24, 1>>

NaN == <<0, 0>>
IsNaN(v) == v = NaN

RECURSIVE GCD(_, _)
GCD(a, b) == IF b = 0 THEN a ELSE GCD(b, a % b)

AbsInt(n) == IF n < 0 THEN -n ELSE n

\* the float n/d, d # 0
Frac(n, d) ==
    LET g == GCD(AbsInt(n), AbsInt(d))
        sgn == IF d < 0 THEN -1 ELSE 1
    IN  <<sgn * (n \div g), sgn * (d \div g)>>

Num(n) == <<n, 1>>

\* float arithmetic; NaN propagates; x/0 is +-inf and 0/0 is NaN
FAdd(a, b) == IF IsNaN(a) \/ IsNaN(b) THEN NaN
              ELSE Frac(a[1] * b[2] + b[1] * a[2], a[2] * b[2])
FSub(a, b) == IF IsNaN(a) \/ IsNaN(b) THEN NaN
              ELSE Frac(a[1] * b[2] - b[1] * a[2], a[2] * b[2])
FMul(a, b) == IF IsNaN(a) \/ IsNaN(b) THEN NaN
              ELSE Frac(a[1] * b[1], a[2] * b[2])
FDiv(a, b) == IF IsNaN(a) \/ IsNaN(b) THEN NaN
              ELSE IF b[1] = 0
                   THEN (IF a[1] = 0 THEN NaN
                         ELSE IF a[1] > 0 THEN <<1, 0>> ELSE <<-1, 0>>)
                   ELSE Frac(a[1] * b[2], a[2] * b[1])
FAbs(a) == <<AbsInt(a[1]), a[2]>>
FLess(a, b) == a[1] * b[2] < b[1] * a[2]

\* max over a row skipping NaN (DataFrame.max(axis=1)); NaN if all are NaN
FMaxSkipNa(a, b) == IF IsNaN(a) THEN b
                    ELSE IF IsNaN(b) THEN a
                    ELSE IF FLess(a, b) THEN b ELSE a

RECURSIVE Log2(_)
Log2(n) == IF n <= 1 THEN 0 ELSE 1 + Log2(n \div 2)

\* np.log of a quotient of powers of two, in units of ln 2
Log(v) == IF IsNaN(v) THEN NaN ELSE Num(Log2(v[1]) - Log2(v[2]))

(***************************************************************************)
(* pandas Series: sequences of floats; row i of the code is element i + 1.  *)
(***************************************************************************)
\* Series.shift(k): element i takes the value k rows earlier (later if k < 0)
Shift(s, k) ==
    [i \in 1 .. Len(s) |->
        IF i - k >= 1 /\ i - k <= Len(s) THEN s[i - k] ELSE NaN]

RECURSIVE SumOver(_, _, _)
SumOver(s, lo, hi) ==
    IF lo > hi THEN Num(0) ELSE FAdd(s[lo], SumOver(s, lo + 1, hi))

\* rolling(window=w) has min_periods = w: the w rows ending at row i, all of
\* them present and not NaN, else the result is NaN
WindowFull(s, i, w) ==
    /\ i >= w
    /\ \A k \in (i - w + 1) .. i : ~IsNaN(s[k])

RollingSum(s, w) ==
    [i \in 1 .. Len(s) |->
        IF WindowFull(s, i, w) THEN SumOver(s, i - w + 1, i) ELSE NaN]

RollingMean(s, w) ==
    [i \in 1 .. Len(s) |->
        IF WindowFull(s, i, w)
        THEN FDiv(SumOver(s, i - w + 1, i), Num(w)) ELSE NaN]

\* rolling(window=w).std(), ddof = 1, as its square:
\* (w * sum(x^2) - sum(x)^2) / (w * (w - 1))
RollingStd(s, w) ==
    LET sq == [k \in 1 .. Len(s) |-> FMul(s[k], s[k])]
    IN  [i \in 1 .. Len(s) |->
            IF WindowFull(s, i, w) /\ w > 1
            THEN LET sx  == SumOver(s, i - w + 1, i)
                     sxx == SumOver(sq, i - w + 1, i)
                 IN  FDiv(FSub(FMul(Num(w), sxx), FMul(sx, sx)),
                          Num(w * (w - 1)))
            ELSE NaN]

SMul(s, c)  == [i \in 1 .. Len(s) |-> FMul(s[i], c)]
SDiv(a, b)  == [i \in 1 .. Len(a) |-> FDiv(a[i], b[i])]
SSub(a, b)  == [i \in 1 .. Len(a) |-> FSub(a[i], b[i])]
SAbs(a)     == [i \in 1 .. Len(a) |-> FAbs(a[i])]
SLog(a)     == [i \in 1 .. Len(a) |-> Log(a[i])]

(***************************************************************************)
(* pandas DataFrame: cols maps a column name to its Series, index is the    *)
(* row labels (hours since the epoch when kind = "datetime").               *)
(***************************************************************************)
HasCol(f, c) == c \in DOMAIN f.cols
Col(f, c) == f.cols[c]
\* df[c] = s
SetCol(f, c, s) == [f EXCEPT !.cols = (c :> s) @@ f.cols]
NRows(f) == Len(f.index)

\* pd.DataFrame(): what fetch_ohlcv_data returns on lines 49, 84 and 90
EmptyDataFrame == [cols |-> <<>>, index |-> <<>>, kind |-> "range"]

\* the first timestamp of the caller's series: 31 January 1970, 21:00
IndexStart == 31 * 24 - 3

\* the candles a series is built from: close a power of two, and a gap
\* between one candle's close and the range of the other
CandleChoices ==
    { [open |-> 1, high |-> 2, low |-> 1, close |-> 1, volume |-> 1],
      [open |-> 4, high |-> 8, low |-> 4, close |-> 8, volume |-> 3] }

\* the frame fetch_ohlcv_data builds on lines 93-100 from a list of candles
OhlcvFrame(candles) ==
    [cols |-> [c \in {"open", "high", "low", "close", "volume"} |->
                  [i \in 1 .. Len(candles) |-> Num(candles[i][c])]],
     index |-> [i \in 1 .. Len(candles) |-> IndexStart + i - 1],
     kind |-> "datetime"]

VolCol(w) == CASE w = SHORT_TERM_WINDOW -> "vol_realizada_24h"
               [] w = MID_TERM_WINDOW   -> "vol_realizada_168h"
               [] w = LONG_TERM_WINDOW  -> "vol_realizada_720h"
RetCol(w) == CASE w = SHORT_TERM_WINDOW -> "retorno_acumulado_24h"
               [] w = MID_TERM_WINDOW   -> "retorno_acumulado_168h"
MeanVolCol(w) == CASE w = SHORT_TERM_WINDOW -> "media_movel_volume_24h"
                   [] w = MID_TERM_WINDOW   -> "media_movel_volume_168h"

\* lines 30-33, on a frame that has 'close'; the frame passed in is updated
CreateTargetVariable(f, window) ==
    LET close == Col(f, "close")
        log_returns == SLog(SDiv(close, Shift(close, 1)))
        future_volatility == RollingStd(Shift(log_returns, -window), window)
    IN  SetCol(SetCol(f, "log_returns", log_returns),
               "target_volatility", SMul(future_volatility, ANNUALIZATION_FACTOR))

CreateTargetVariableRaises(f) ==
    IF HasCol(f, "close") THEN "none" ELSE "KeyError"

\* lines 46-47: one pass of the loop
WithVol(f, w) ==
    SetCol(f, VolCol(w),
           SMul(RollingStd(Col(f, "log_returns"), w), ANNUALIZATION_FACTOR))

\* line 50
WithVolRatio(f) ==
    SetCol(f, "vol_ratio_24_168",
           SDiv(Col(f, VolCol(SHORT_TERM_WINDOW)), Col(f, VolCol(MID_TERM_WINDOW))))

AddVolatilityFeaturesAbsReturns(f) ==
    WithVolRatio(
        WithVol(WithVol(WithVol(
            SetCol(f, "log_returns", SAbs(Col(f, "log_returns"))),
            SHORT_TERM_WINDOW), MID_TERM_WINDOW), LONG_TERM_WINDOW))

\* lines 45-52, on a frame that has 'log_returns'
AddVolatilityFeatures(f) ==
    WithVolRatio(
        WithVol(WithVol(WithVol(f, SHORT_TERM_WINDOW), MID_TERM_WINDOW),
                LONG_TERM_WINDOW))

AddVolatilityFeaturesRaises(f) ==
    IF HasCol(f, "log_returns") THEN "none" ELSE "KeyError"

TrueRangeNextClose(f) ==
    LET high_low   == SSub(Col(f, "high"), Col(f, "low"))
        high_close == SAbs(SSub(Col(f, "high"), Shift(Col(f, "close"), -1)))
        low_close  == SAbs(SSub(Col(f, "low"), Shift(Col(f, "close"), -1)))
    IN  [i \in 1 .. NRows(f) |->
            FMaxSkipNa(FMaxSkipNa(high_low[i], high_close[i]), low_close[i])]

\* lines 64-68: the true range, max(axis=1) skipping NaN
TrueRange(f) ==
    LET high_low   == SSub(Col(f, "high"), Col(f, "low"))
        high_close == SAbs(SSub(Col(f, "high"), Shift(Col(f, "close"), 1)))
        low_close  == SAbs(SSub(Col(f, "low"), Shift(Col(f, "close"), 1)))
    IN  [i \in 1 .. NRows(f) |->
            FMaxSkipNa(FMaxSkipNa(high_low[i], high_close[i]), low_close[i])]

\* lines 60-61: one pass of the loop
WithRet(f, w) ==
    SetCol(f, RetCol(w), RollingSum(Col(f, "log_returns"), w))

\* line 69
WithAtr(f) ==
    SetCol(f, "atr_24h", RollingMean(TrueRange(f), SHORT_TERM_WINDOW))

\* lines 59-71, on a frame that has 'log_returns' and the OHLC columns
AddMomentumFeatures(f) ==
    WithAtr(WithRet(WithRet(f, SHORT_TERM_WINDOW), MID_TERM_WINDOW))

AddMomentumFeaturesRaises(f) ==
    IF {"log_returns", "high", "low", "close"} \subseteq DOMAIN f.cols
    THEN "none" ELSE "KeyError"

\* lines 79-80: one pass of the loop
WithMeanVol(f, w) ==
    SetCol(f, MeanVolCol(w), RollingMean(Col(f, "volume"), w))

\* line 83
WithVolumeRatio(f) ==
    SetCol(f, "volume_ratio_1_24",
           SDiv(Col(f, "volume"), Col(f, MeanVolCol(SHORT_TERM_WINDOW))))

\* lines 78-85, on a frame that has 'volume'
AddVolumeFeatures(f) ==
    WithVolumeRatio(
        WithMeanVol(WithMeanVol(f, SHORT_TERM_WINDOW), MID_TERM_WINDOW))

AddVolumeFeaturesRaises(f) ==
    IF HasCol(f, "volume") THEN "none" ELSE "KeyError"

\* the month of day d (days since 1 January 1970, within a 365-day year)
MonthOfDay(d) ==
    LET ends == <<31, 59, 90, 120, 151, 181, 212, 243, 273, 304, 334, 365>>
    IN  CHOOSE m \in 1 .. 12 :
            /\ (d % 365) < ends[m]
            /\ \A k \in 1 .. m - 1 : (d % 365) >= ends[k]

\* lines 91-95, on a frame with a DatetimeIndex; 1 January 1970 is a Thursday
AddTimeFeatures(f) ==
    LET hour  == [i \in 1 .. NRows(f) |-> Num(f.index[i] % 24)]
        dow   == [i \in 1 .. NRows(f) |-> Num(((f.index[i] \div 24) + 3) % 7)]
        month == [i \in 1 .. NRows(f) |-> Num(MonthOfDay(f.index[i] \div 24))]
    IN  SetCol(SetCol(SetCol(f, "hora_do_dia", hour), "dia_da_semana", dow),
               "mes_do_ano", month)

\* df.index.hour on an index that is not a DatetimeIndex
AddTimeFeaturesRaises(f) ==
    IF f.kind = "datetime" THEN "none" ELSE "AttributeError"

\* one function applied to the outcome [f, e] of the ones before it
Then(r, raises, g) ==
    IF r.e # "none" THEN r
    ELSE IF raises # "none" THEN [f |-> r.f, e |-> raises]
    ELSE [f |-> g, e |-> "none"]

\* lines 115-118: each group applied to the outcome of the one before
ThenVolatility(r) ==
    Then(r, AddVolatilityFeaturesRaises(r.f), AddVolatilityFeatures(r.f))
ThenMomentum(r) ==
    Then(r, AddMomentumFeaturesRaises(r.f), AddMomentumFeatures(r.f))
ThenVolume(r) ==
    Then(r, AddVolumeFeaturesRaises(r.f), AddVolumeFeatures(r.f))
ThenTime(r) ==
    Then(r, AddTimeFeaturesRaises(r.f), AddTimeFeatures(r.f))

\* lines 112-121: the four groups in sequence on df.copy(); [f, e] where e
\* is the exception raised, "none" if none
CreateAllFeatures(f) ==
    ThenTime(ThenVolume(ThenMomentum(ThenVolatility([f |-> f, e |-> "none"]))))

\* the rows of f that hold no NaN
RowsWithoutNaN(f) ==
    { i \in 1 .. NRows(f) : \A c \in DOMAIN f.cols : ~IsNaN(f.cols[c][i]) }

RECURSIVE KeepRows(_, _, _)
KeepRows(s, keep, i) ==
    IF i > Len(s) THEN <<>>
    ELSE (IF i \in keep THEN <<s[i]>> ELSE <<>>) \o KeepRows(s, keep, i + 1)

DropNaHowAll(f) ==
    LET keep == { i \in 1 .. NRows(f) :
                    \E c \in DOMAIN f.cols : ~IsNaN(f.cols[c][i]) }
    IN  [cols |-> [c \in DOMAIN f.cols |-> KeepRows(f.cols[c], keep, 1)],
         index |-> KeepRows(f.index, keep, 1),
         kind |-> f.kind]

\* line 150: final_df.dropna()
DropNa(f) ==
    LET keep == RowsWithoutNaN(f)
    IN  [cols |-> [c \in DOMAIN f.cols |-> KeepRows(f.cols[c], keep, 1)],
         index |-> KeepRows(f.index, keep, 1),
         kind |-> f.kind]

(***************************************************************************)
(* The caller of feature_engineering.py.  df is the caller's DataFrame      *)
(* object: the functions that assign columns to their argument change it.   *)
(* The caller either calls the single functions on df, each at most once    *)
(* and in any order, or follows the script of lines 141-150:                *)
(* create_target_variable, create_all_features, dropna.  An exception ends  *)
(* the calls.                                                               *)
(***************************************************************************)
FetchIdle ==
    /\ pc = "idle" /\ start_date = INVALID_DATE /\ start_timestamp = 0
    /\ all_data = <<>> /\ result = <<>> /\ now = 0 /\ srcFirst = 0
    /\ srcCount = 0 /\ lastReq = -1 /\ lastOutcome = "none"
    /\ sawNetwork = FALSE

CandleLists == UNION { [1 .. n -> CandleChoices] : n \in 0 .. MaxRows }

InitFeat ==
    /\ raw \in {EmptyDataFrame} \cup { OhlcvFrame(c) : c \in CandleLists }
    /\ df = raw
    /\ horizon \in SHORT_TERM_WINDOW .. MaxHorizon
    /\ done = {}
    /\ final_df = NoFrame
    /\ cleaned = NoFrame
    /\ err = "none"
    /\ errStep = "none"

\* a call of step on df: it raises, or df becomes frame
CallOnDf(step, raises, frame) ==
    /\ err = "none"
    /\ step \notin done
    /\ "create_all_features" \notin done
    /\ done' = done \cup {step}
    /\ IF raises # "none"
       THEN /\ err' = raises
            /\ errStep' = step
            /\ UNCHANGED df
       ELSE /\ df' = frame
            /\ UNCHANGED <<err, errStep>>
    /\ UNCHANGED <<raw, horizon, final_df, cleaned>>
    /\ UNCHANGED fetchVars

\* create_target_variable(df, window=horizon)
CallCreateTargetVariable ==
    CallOnDf("create_target_variable", CreateTargetVariableRaises(df),
             CreateTargetVariable(df, horizon))

\* add_volatility_features(df)
CallAddVolatilityFeatures ==
    CallOnDf("add_volatility_features", AddVolatilityFeaturesRaises(df),
             AddVolatilityFeatures(df))

\* add_momentum_features(df)
CallAddMomentumFeatures ==
    CallOnDf("add_momentum_features", AddMomentumFeaturesRaises(df),
             AddMomentumFeatures(df))

\* add_volume_features(df)
CallAddVolumeFeatures ==
    CallOnDf("add_volume_features", AddVolumeFeaturesRaises(df),
             AddVolumeFeatures(df))

\* add_time_features(df)
CallAddTimeFeatures ==
    CallOnDf("add_time_features", AddTimeFeaturesRaises(df),
             AddTimeFeatures(df))

\* final_df = create_all_features(df): works on a copy, df is left alone
CallCreateAllFeatures ==
    /\ err = "none"
    /\ done \subseteq {"create_target_variable"}
    /\ done' = done \cup {"create_all_features"}
    /\ \E r \in {CreateAllFeatures(df)} :
           IF r.e # "none"
           THEN /\ err' = r.e
                /\ errStep' = "create_all_features"
                /\ UNCHANGED final_df
           ELSE /\ final_df' = r.f
                /\ UNCHANGED <<err, errStep>>
    /\ UNCHANGED <<raw, df, horizon, cleaned>>
    /\ UNCHANGED fetchVars

\* final_df_cleaned = final_df.dropna()
CallDropNa ==
    /\ err = "none"
    /\ "create_all_features" \in done
    /\ "dropna" \notin done
    /\ done' = done \cup {"dropna"}
    /\ cleaned' = DropNa(final_df)
    /\ UNCHANGED <<raw, df, horizon, final_df, err, errStep>>
    /\ UNCHANGED fetchVars

FeatInit == InitFeat /\ FetchIdle

FeatNext ==
    \/ CallCreateTargetVariable
    \/ CallAddVolatilityFeatures
    \/ CallAddMomentumFeatures
    \/ CallAddVolumeFeatures
    \/ CallAddTimeFeatures
    \/ CallCreateAllFeatures
    \/ CallDropNa

FeatureSpec == FeatInit /\ [][FeatNext]_vars

Next ==
    \/ ParseStartDate
    \/ LoopCheck
    \/ FetchPage
    \/ FetchEmpty
    \/ OnNetworkError
    \/ OnExchangeError
    \/ Assemble

Spec == Init /\ [][Next]_vars

\* The retry loop ends only if the source eventually answers: a request that
\* is made again and again is eventually answered with something other than
\* a NetworkError.
Answered == FetchPage \/ FetchEmpty \/ OnExchangeError

LiveSpec == Init /\ [][Next]_vars /\ WF_vars(Next) /\ SF_vars(Answered)

(***************************************************************************)
(* Claims about fetch_ohlcv_data                                           *)
(***************************************************************************)

\* C1: the returned series has strictly increasing timestamps spaced by
\* exactly one interval: no candle twice, none skipped between first and last.
C1_NoDuplicatesNoGaps ==
    pc = "done" =>
        \A k \in 1 .. Len(result) - 1 :
            result[k + 1] - result[k] = Interval * NsPerMs

\* a run that returned three or more candles, so more than one page, with a
\* NetworkError on the way
C1_Witness ==
    pc = "done" /\ Len(result) >= MaxPage + 1 /\ sawNetwork

\* C4: a NetworkError leaves the cursor and the accumulated candles as they
\* were, the loop goes round again (the loop test still holds), and the next
\* request is made with the cursor of the failed one; never an abort.
C4_TransientIsExactRetry ==
    /\ [][(pc = "fetch" /\ lastOutcome' = "network") =>
             /\ start_timestamp' = start_timestamp
             /\ all_data' = all_data
             /\ pc' = "loop"]_vars
    /\ [](lastOutcome = "network" =>
             /\ pc \in {"loop", "fetch"}
             /\ start_timestamp = lastReq
             /\ pc = "loop" => start_timestamp < now)

\* the request is about to be made again after a NetworkError, with pages
\* already accumulated
C4_Witness ==
    lastOutcome = "network" /\ pc = "fetch" /\ all_data # <<>>

\* C5: after an ExchangeError the function has returned, with an empty
\* DataFrame, whatever had been accumulated; no request follows.
C5_PermanentAborts ==
    lastOutcome = "exchange" => (pc = "done" /\ result = <<>>)

\* an ExchangeError after pages had been accumulated
C5_Witness ==
    lastOutcome = "exchange" /\ all_data # <<>>

\* C10: under LiveSpec every call returns; the cursor never decreases and
\* strictly increases on every non-empty page.
C10_Terminates ==
    /\ <>(pc = "done")
    /\ [][start_timestamp' >= start_timestamp]_vars
    /\ [][(pc = "fetch" /\ lastOutcome' = "page") =>
             start_timestamp' > start_timestamp]_vars

\* a call that returned data after a NetworkError and a retry
C10_Witness ==
    pc = "done" /\ result # <<>> /\ sawNetwork /\ lastOutcome = "empty"

(***************************************************************************)
(* Claims about feature_engineering.py, under FeatureSpec                   *)
(***************************************************************************)
Defined(v) == ~IsNaN(v)

\* C2: after create_target_variable(df, window=H) on N rows, target_volatility
\* is defined exactly for rows 0..N-1-H (elements 1..N-H) and for no other row.
C2_TargetDefinedOnAllButLastRows ==
    ("create_target_variable" \in done /\ err = "none") =>
        \A i \in 1 .. NRows(df) :
            Defined(Col(df, "target_volatility")[i]) <=> i <= NRows(df) - horizon

FiveSteps ==
    { "create_target_variable", "add_volatility_features",
      "add_momentum_features", "add_volume_features", "add_time_features" }

PredictorCols ==
    { VolCol(SHORT_TERM_WINDOW), VolCol(MID_TERM_WINDOW), VolCol(LONG_TERM_WINDOW),
      "vol_ratio_24_168",
      RetCol(SHORT_TERM_WINDOW), RetCol(MID_TERM_WINDOW), "atr_24h",
      MeanVolCol(SHORT_TERM_WINDOW), MeanVolCol(MID_TERM_WINDOW),
      "volume_ratio_1_24",
      "hora_do_dia", "dia_da_semana", "mes_do_ano" }

\* the first i rows of f
Truncate(f, i) ==
    [cols |-> [c \in DOMAIN f.cols |-> SubSeq(f.cols[c], 1, i)],
     index |-> SubSeq(f.index, 1, i),
     kind |-> f.kind]

\* the predictors computed from the first i rows of the caller's series only
PredictorsFromRowsUpTo(i) ==
    CreateAllFeatures(CreateTargetVariable(Truncate(raw, i), horizon)).f

UsesPastOnly(g) ==
    \A i \in 1 .. NRows(g) :
        \A p \in {PredictorsFromRowsUpTo(i)} :
            \A c \in PredictorCols : g.cols[c][i] = p.cols[c][i]

\* C3: every predictor value at row i is the value computed from the rows
\* up to i alone: the rows after i have no influence on it.  Stated of the
\* frames that hold every predictor column: the one create_all_features
\* returned, and the caller's once all five functions have run on it.
C3_PredictorsUsePastOnly ==
    /\ (err = "none" /\ "create_all_features" \in done /\ "dropna" \notin done)
           => UsesPastOnly(final_df)
    /\ (err = "none" /\ done = FiveSteps /\ raw.kind = "datetime")
           => UsesPastOnly(df)

\* all predictors computed, on a series long enough for the longest window
\* to be full before the last row
C3_Witness ==
    /\ err = "none"
    /\ "create_all_features" \in done
    /\ NRows(final_df) > LONG_TERM_WINDOW + 1
    /\ Defined(Col(final_df, VolCol(LONG_TERM_WINDOW))[LONG_TERM_WINDOW + 1])
    /\ PredictorCols \subseteq DOMAIN final_df.cols

\* no quotient column divides by zero
NoZeroDenominators(g) ==
    \A i \in 1 .. NRows(g) :
        /\ Col(g, VolCol(MID_TERM_WINDOW))[i] # Num(0)
        /\ Col(g, MeanVolCol(SHORT_TERM_WINDOW))[i] # Num(0)

CleaningApplies ==
    /\ "dropna" \in done
    /\ err = "none"
    /\ NRows(raw) >= LONG_TERM_WINDOW + horizon
    /\ NoZeroDenominators(final_df)

\* C6: create_target_variable, create_all_features, dropna on N >= L + H rows
\* without zero denominators keeps exactly rows L..N-1-H: N - L - H rows.
C6_CleaningKeepsExactlyTheMiddle ==
    CleaningApplies =>
        /\ cleaned.index =
               SubSeq(raw.index, LONG_TERM_WINDOW + 1, NRows(raw) - horizon)
        /\ NRows(cleaned) = NRows(raw) - LONG_TERM_WINDOW - horizon
        /\ \A c \in DOMAIN final_df.cols :
               cleaned.cols[c] =
                   SubSeq(final_df.cols[c], LONG_TERM_WINDOW + 1,
                          NRows(raw) - horizon)

\* a cleaned table that kept a row and dropped rows at both ends
C6_Witness ==
    CleaningApplies /\ NRows(cleaned) >= 1 /\ horizon = SHORT_TERM_WINDOW

\* C7: after create_target_variable(series) and create_all_features(series)
\* the caller's series (here one with rows) has the columns and values it
\* had before.
C7_CallerSeriesUnchanged ==
    ({"create_target_variable", "create_all_features"} \subseteq done
        /\ err = "none" /\ NRows(raw) > 0) => df = raw

\* the functions that read the column log_returns
ReadLogReturns == { "add_volatility_features", "add_momentum_features" }

\* the functions of S applied to f in the order of the module
InModuleOrder(f, S) ==
    LET f1 == IF "create_target_variable" \in S
              THEN CreateTargetVariable(f, horizon) ELSE f
        f2 == IF "add_volatility_features" \in S
              THEN AddVolatilityFeatures(f1) ELSE f1
        f3 == IF "add_momentum_features" \in S
              THEN AddMomentumFeatures(f2) ELSE f2
        f4 == IF "add_volume_features" \in S
              THEN AddVolumeFeatures(f3) ELSE f3
    IN  IF "add_time_features" \in S THEN AddTimeFeatures(f4) ELSE f4

\* the caller calls the single functions on an OHLCV series
SingleCalls == raw.kind = "datetime" /\ "create_all_features" \notin done

\* C8 as stated: every ordering of the five functions (here on a series with
\* rows) completes without error and yields the same columns with the same
\* values.
C8_EveryOrderCompletes ==
    (SingleCalls /\ NRows(raw) > 0) =>
        /\ err = "none"
        /\ done = FiveSteps => df = InModuleOrder(raw, FiveSteps)

\* C8 as amended: the orderings that call create_target_variable before the
\* functions that read log_returns complete without error and yield the same
\* columns and values; the others, and only they, raise KeyError.
C8_OrderFreeOnceTargetRan ==
    SingleCalls =>
        /\ (err = "none" /\ done = FiveSteps)
               => df = InModuleOrder(raw, FiveSteps)
        /\ err # "none" =>
               /\ err = "KeyError"
               /\ errStep \in ReadLogReturns
               /\ "create_target_variable" \notin done
        /\ ("create_target_variable" \in done \/ done \cap ReadLogReturns = {})
               => err = "none"

\* all five functions have run on a series with every window full somewhere
C8_Witness ==
    /\ SingleCalls
    /\ done = FiveSteps
    /\ err = "none"
    /\ NRows(df) > LONG_TERM_WINDOW
    /\ Defined(Col(df, "retorno_acumulado_168h")[NRows(df)])

\* C9: on an empty series create_target_variable raises nothing, and neither
\* does create_all_features called after it.
C9_EmptyInputRaisesNothing ==
    NRows(raw) = 0 =>
        /\ errStep = "create_target_variable" => err = "none"
        /\ (errStep = "create_all_features"
              /\ "create_target_variable" \in done) => err = "none"

====
